---- MODULE Spec2Model ----
(***************************************************************************)
(* The hybrid search engine of src/search/semantic_search.py               *)
(* (MemoryOptimizedSearchEngine): its in-memory corpus, its two cache      *)
(* files, index_books as a sequence of steps (so that a reader can run     *)
(* between them), construction with _load_if_exists, search and            *)
(* recommend_similar.                                                      *)
(*                                                                         *)
(* The embedding model and the TF-IDF vectorizer are library black boxes.  *)
(* An embedding row is represented by the text it was computed from, a     *)
(* keyword row by its text and the texts its vocabulary was fitted on, and *)
(* a query by the cosine similarities it has with each indexed text.       *)
(*                                                                         *)
(* Numbers: a semantic or keyword score is an integer number of score      *)
(* steps; a weight is an integer number of 1/Quantum32 units; a combined   *)
(* score is therefore counted in units of 1/Quantum32 of a score step.     *)
(* float64 arithmetic is exact at that resolution, float32 values are the  *)
(* multiples of Quantum32.                                                 *)
(***************************************************************************)
EXTENDS Integers, Sequences, FiniteSets, TLC

\* ---------------------------------------------------------------- bounds

\* Longest list of records handed to index_books.
MaxBooks == 2

\* index_books calls, per run, that get past the guards of lines 99-111.
MaxBuilds == 1

\* Largest top_k a caller passes.
MaxTopK == 2

\* Largest corpus a recommendation is drawn from.
MaxRecBooks == 3

\* Most rows of a CSV file handed to the enrichment script.
MaxRows == 3

\* Longest batch handed to insert_books_batch, and calls per run.
MaxBatch == 2
MaxInserts == 3

\* float64 steps per float32 step: a Python float has Quantum32 values from
\* one float32 value to the next.
Quantum32 == 4

\* ---------------------------------------------------- program constants

\* description[:500]
DescCap == 500

\* ------------------------------------------------------------- helpers

Min(a, b) == IF a < b THEN a ELSE b

Range(s) == {s[i] : i \in 1..Len(s)}

SeqsUpTo(S, n) == UNION {[1..k -> S] : k \in 0..n}

\* Python's None, as the value of an attribute that otherwise holds an
\* array ([rows |-> ...]) or a vectorizer ([fitted |-> ...]).
None == [none |-> TRUE]

\* A genres column that is NULL in the database (dict value None).
NoGenres == <<"<None>">>

\* ------------------------------------------------------------- records

\* Genre texts, as sequences of characters.
Fantasy == <<"F", "a">>
Horror == <<"H", "o">>

\* The records callers hand to index_books: rows of the books table
\* (isbn, title, description, genres; description may be empty, genres
\* may be NULL) and, since index_books takes any list, two records that
\* share an isbn.
Catalog ==
    { [isbn |-> 1, title |-> "t1", description |-> <<"w">>, genres |-> Fantasy],
      [isbn |-> 2, title |-> "t2", description |-> <<"d">>, genres |-> Horror],
      [isbn |-> 3, title |-> "t3", description |-> <<>>,    genres |-> Fantasy],
      [isbn |-> 1, title |-> "t4", description |-> <<"w">>, genres |-> NoGenres] }

\* A test for the description key being present, whatever its value.
HasDescription_KeyPresent(b) == TRUE

\* b.get('description') is truthy.
HasDescription(b) == b.description # <<>>

\* book.get('genres') is truthy.
HasGenres(b) == b.genres # NoGenres /\ b.genres # <<>>

\* The filter of line 106 keeping every record.
ValidBooks_KeepsAll(bs) == bs

\* valid_books = [b for b in books if b.get('description')]
RECURSIVE ValidBooks(_)
ValidBooks(bs) ==
    IF bs = <<>> THEN <<>>
    ELSE IF HasDescription(Head(bs))
         THEN <<Head(bs)>> \o ValidBooks(Tail(bs))
         ELSE ValidBooks(Tail(bs))

\* The text blob of one record: title, description[:500], genres.
TextOf(b) ==
    [title |-> b.title,
     desc  |-> SubSeq(b.description, 1, Min(Len(b.description), DescCap)),
     genres |-> IF HasGenres(b) THEN b.genres ELSE <<>>]

\* texts, one per valid book, in order.
Texts(bs) == [i \in 1..Len(bs) |-> TextOf(bs[i])]

\* model.encode(texts).astype('float16'): an array with one row per text.
Encode(texts) == [rows |-> [i \in 1..Len(texts) |-> [emb |-> texts[i]]]]

\* The vectorizer after fit_transform(texts): its fitted keyword space.
Fit(texts) == [fitted |-> TRUE, vocab |-> Range(texts)]

\* fit_transform(texts): one keyword row per text, in the fitted space.
FitTransform(texts) ==
    [rows |-> [i \in 1..Len(texts) |-> [tf |-> texts[i], vocab |-> Range(texts)]]]

\* The rows of an array attribute; None has none.
Rows(a) == IF a = None THEN <<>> ELSE a.rows

NRows(a) == Len(Rows(a))

\* A TfidfVectorizer that was constructed but never fitted.
Unfitted == [fitted |-> FALSE]

\* ---------------------------------------------------------------- state

VARIABLES
    books,             \* self.books
    embeddings,        \* self.embeddings: None or an array
    tfidf_vectorizer,  \* self.tfidf_vectorizer: None or a vectorizer
    tfidf_matrix,      \* self.tfidf_matrix: None or an array
    embFile,           \* the file at embeddings_path
    idxFile,           \* the file at index_path
    pc,                \* where the running index_books call stands
    nbuilds,           \* index_books calls that went past their guards
    build,             \* the running or last index_books call of this engine
    call,              \* the reader call that has just returned, if any
    api,               \* the API module that holds the engine, if one does
    rebuild,           \* what requests were served from when the last
                       \* rebuild-index request began
    enrich,            \* the run of the enrichment script, if one runs
    table,             \* the rows of the books table, in insertion order
    dbcall             \* the insert_books_batch call that has just returned

engine == <<books, embeddings, tfidf_vectorizer, tfidf_matrix>>
disk == <<embFile, idxFile>>
vars == <<books, embeddings, tfidf_vectorizer, tfidf_matrix,
          embFile, idxFile, pc, nbuilds, build, call, api, rebuild,
          enrich, table, dbcall>>

\* The enrichment script and the database: no part of the engine.
etl == <<enrich, table, dbcall>>

\* The corpus as one value.
Corpus ==
    [books |-> books, embeddings |-> embeddings,
     tfidf_vectorizer |-> tfidf_vectorizer, tfidf_matrix |-> tfidf_matrix]

\* A cache file: missing, unreadable (pickle.load raises), or a pickled dict.
Absent == [state |-> "absent"]
Corrupt == [state |-> "corrupt"]
Exists(f) == f # Absent

\* No index_books call yet on this engine object; `after` is how the last
\* call on the object it replaced had ended ("none": no call, or no object).
NoBuild == [outcome |-> "none", after |-> "none"]
NoCall == [op |-> "none"]

\* No rebuild-index request has replaced the engine of this process.
NoRebuild == [requested |-> FALSE]

\* No enrichment run, an empty books table, no insert_books_batch call.
NoEnrich == [pc |-> "none"]
NoDbCall == [op |-> "none", calls |-> 0]
NoEtl == enrich = NoEnrich /\ table = <<>> /\ dbcall = NoDbCall

\* ------------------------------------------- construction and cache load

\* A load whose except clause leaves what was read before the failure.
Loaded_KeepsPartial(ef, xf) ==
    LET fresh == [books |-> <<>>, embeddings |-> None,
                  tfidf_vectorizer |-> None, tfidf_matrix |-> None]
    IN  IF ~(Exists(ef) /\ Exists(xf)) THEN fresh
        ELSE IF ef = Corrupt THEN fresh
        ELSE IF xf = Corrupt
             THEN [fresh EXCEPT !.embeddings = ef.embeddings,
                                !.tfidf_matrix = ef.tfidf_matrix]
        ELSE [books |-> xf.books, embeddings |-> ef.embeddings,
              tfidf_vectorizer |-> xf.tfidf_vectorizer,
              tfidf_matrix |-> ef.tfidf_matrix]

\* A load that looks for the keyword matrix in the index file, where
\* _save_index does not put it.
Loaded_MatrixFromIndexFile(ef, xf) ==
    LET fresh == [books |-> <<>>, embeddings |-> None,
                  tfidf_vectorizer |-> None, tfidf_matrix |-> None]
    IN  IF ~(Exists(ef) /\ Exists(xf)) THEN fresh
        ELSE IF ef = Corrupt \/ xf = Corrupt THEN fresh
        ELSE [books |-> xf.books, embeddings |-> ef.embeddings,
              tfidf_vectorizer |-> xf.tfidf_vectorizer,
              tfidf_matrix |-> None]

\* __init__ followed by _load_if_exists on a new engine object.
Loaded(ef, xf) ==
    LET fresh == [books |-> <<>>, embeddings |-> None,
                  tfidf_vectorizer |-> None, tfidf_matrix |-> None]
    IN  IF ~(Exists(ef) /\ Exists(xf)) THEN fresh
        ELSE IF ef = Corrupt THEN fresh
        ELSE IF xf = Corrupt
             THEN [fresh EXCEPT !.tfidf_matrix = ef.tfidf_matrix]
        ELSE [books |-> xf.books, embeddings |-> ef.embeddings,
              tfidf_vectorizer |-> xf.tfidf_vectorizer,
              tfidf_matrix |-> ef.tfidf_matrix]

\* A new engine replaces the current one (process start, or the first two
\* lines of a rebuild-index handler); a call still running on the old
\* object no longer concerns the current engine.
Construct ==
    LET c == Loaded(embFile, idxFile)
    IN  /\ books' = c.books
        /\ embeddings' = c.embeddings
        /\ tfidf_vectorizer' = c.tfidf_vectorizer
        /\ tfidf_matrix' = c.tfidf_matrix
        /\ pc' = "idle"
        /\ build' = [NoBuild EXCEPT !.after = build.outcome]
        /\ rebuild' = NoRebuild
        /\ call = NoCall /\ UNCHANGED <<call, api, etl>>
        /\ UNCHANGED <<disk, nbuilds>>

\* ---------------------------------------------------------- index_books

\* The attributes a call has changed so far: `name` joins them when the
\* value assigned to it differs from the one it held.
Dirty(d, name, old, new) == IF new # old THEN d \cup {name} ELSE d

\* What get_statistics reports as 'indexed' (line 301) and search's guard
\* (line 199) tests: the state an index_books call finds the index in.
Found == IF embeddings # None /\ Len(books) > 0 THEN "ready" ELSE "empty"

\* get_statistics(), lines 295-304: the two entries that depend on the
\* index.
GetStatistics ==
    [total_books |-> Len(books), indexed |-> embeddings # None]

\* The guard of line 99 with the flag the wrong way round.
AlreadyBuilt_FlagInverted(force) == force /\ embeddings # None

\* `not force_reindex and self.embeddings is not None`, line 99.
AlreadyBuilt(force) == ~force /\ embeddings # None

\* Lines 99-113: the guard, the filter, and the assignment of self.books.
\* `build` records the call: its arguments, how it ended, and the value it
\* returns when it returns (every return of index_books is a bare return
\* or the end of the body, so None), and the state it found the index in.
IndexBooks(input, force) ==
    /\ pc = "idle"
    /\ call = NoCall /\ UNCHANGED <<call, api, rebuild, etl>>
    /\ UNCHANGED disk
    /\ UNCHANGED <<embeddings, tfidf_vectorizer, tfidf_matrix>>
    /\ IF AlreadyBuilt(force)
       THEN /\ build' = [outcome |-> "exists", force |-> force,
                          input |-> input, returns |-> None,
                          found |-> Found,
                          stage |-> "guard", dirty |-> {}]
            /\ UNCHANGED <<books, pc, nbuilds>>
       ELSE IF ValidBooks(input) = <<>>
       THEN /\ build' = [outcome |-> "novalid", force |-> force,
                          input |-> input, returns |-> None,
                          found |-> Found,
                          stage |-> "guard", dirty |-> {}]
            /\ UNCHANGED <<books, pc, nbuilds>>
       ELSE /\ nbuilds < MaxBuilds
            /\ books' = ValidBooks(input)
            /\ pc' = "encode"
            /\ nbuilds' = nbuilds + 1
            /\ build' = [outcome |-> "running", force |-> force,
                          input |-> input, returns |-> None,
                          found |-> Found,
                          stage |-> "guard",
                          dirty |-> Dirty({}, "books", books, ValidBooks(input))]

\* A step of the running call raises: the call ends where it stands.
Raised(stage, dirty) ==
    /\ pc' = "idle"
    /\ build' = [build EXCEPT !.outcome = "raised", !.stage = stage,
                              !.dirty = dirty]
    /\ UNCHANGED nbuilds

\* Lines 131-143: the model loads and encodes; self.embeddings is assigned.
EncodeReturns ==
    /\ pc = "encode"
    /\ embeddings' = Encode(Texts(books))
    /\ pc' = "fit"
    /\ build' = [build EXCEPT !.dirty =
                     Dirty(@, "embeddings", embeddings, Encode(Texts(books)))]
    /\ call = NoCall /\ UNCHANGED <<call, api, rebuild, etl>>
    /\ UNCHANGED <<books, tfidf_vectorizer, tfidf_matrix, disk, nbuilds>>

\* _load_model_lazy or model.encode raises.
EncodeRaises ==
    /\ pc = "encode"
    /\ Raised("encode", build.dirty)
    /\ call = NoCall /\ UNCHANGED <<call, api, rebuild, etl>>
    /\ UNCHANGED <<engine, disk>>

\* Lines 154-159: a new vectorizer is assigned, then fitted.
FitReturns ==
    /\ pc = "fit"
    /\ tfidf_vectorizer' = Fit(Texts(books))
    /\ tfidf_matrix' = FitTransform(Texts(books))
    /\ pc' = "save_emb"
    /\ build' = [build EXCEPT !.dirty =
                     Dirty(Dirty(@, "tfidf_vectorizer", tfidf_vectorizer,
                                 Fit(Texts(books))),
                           "tfidf_matrix", tfidf_matrix,
                           FitTransform(Texts(books)))]
    /\ call = NoCall /\ UNCHANGED <<call, api, rebuild, etl>>
    /\ UNCHANGED <<books, embeddings, disk, nbuilds>>

\* fit_transform raises (line 159) after line 154 assigned the new,
\* unfitted vectorizer.
FitRaises ==
    /\ pc = "fit"
    /\ tfidf_vectorizer' = Unfitted
    /\ Raised("fit", Dirty(build.dirty, "tfidf_vectorizer",
                           tfidf_vectorizer, Unfitted))
    /\ call = NoCall /\ UNCHANGED <<call, api, rebuild, etl>>
    /\ UNCHANGED <<books, embeddings, tfidf_matrix, disk>>

\* _save_index, lines 176-180: the vectors file is written.
SaveEmbReturns ==
    /\ pc = "save_emb"
    /\ embFile' = [state |-> "ok", embeddings |-> embeddings,
                   tfidf_matrix |-> tfidf_matrix]
    /\ pc' = "save_idx"
    /\ call = NoCall /\ UNCHANGED <<call, api, rebuild, etl>>
    /\ UNCHANGED <<engine, idxFile, build, nbuilds>>

\* Writing the vectors file raises: open() failed (file as it was) or
\* pickle.dump stopped part-way (file truncated).
SaveEmbRaises ==
    /\ pc = "save_emb"
    /\ embFile' \in {embFile, Corrupt}
    /\ Raised("save_emb", build.dirty)
    /\ call = NoCall /\ UNCHANGED <<call, api, rebuild, etl>>
    /\ UNCHANGED <<engine, idxFile>>

\* _save_index, lines 182-186: the records file is written; the call ends.
SaveIdxReturns ==
    /\ pc = "save_idx"
    /\ idxFile' = [state |-> "ok", books |-> books,
                   tfidf_vectorizer |-> tfidf_vectorizer]
    /\ pc' = "idle"
    /\ build' = [build EXCEPT !.outcome = "ok"]
    /\ call = NoCall /\ UNCHANGED <<call, api, rebuild, etl>>
    /\ UNCHANGED <<engine, embFile, nbuilds>>

SaveIdxRaises ==
    /\ pc = "save_idx"
    /\ idxFile' \in {idxFile, Corrupt}
    /\ Raised("save_idx", build.dirty)
    /\ call = NoCall /\ UNCHANGED <<call, api, rebuild, etl>>
    /\ UNCHANGED <<engine, embFile>>

\* ---------------------------------------------------------------- scores

\* Cosine similarities a query can have with an indexed text: the dense
\* ones (float32, in score steps) may be negative, the TF-IDF ones
\* (float64, in score steps) are never negative.
SemScores == {-3, 0, 3}
KeyScores == {0, 3}

\* semantic_weight and keyword_weight as callers pass them (Python floats,
\* in units of 1/Quantum32): a negative one and one above one that are not
\* float32 values, zero, and one.
Weights == {-(Quantum32 - 1), 0, Quantum32, Quantum32 + 1}

\* The float32 value nearest to the float64 value x (in units of
\* 1/Quantum32), ties to the even neighbour.
Round32(x) ==
    LET lo == (x \div Quantum32) * Quantum32
        r  == x - lo
    IN  IF 2 * r < Quantum32 THEN lo
        ELSE IF 2 * r > Quantum32 THEN lo + Quantum32
        ELSE IF (lo \div Quantum32) % 2 = 0 THEN lo ELSE lo + Quantum32

\* semantic_weight * semantic_scores (line 230): a Python float times a
\* float32 array is computed in float32, the weight converted first and the
\* product rounded.  s is a float32 value in score steps; the result is in
\* units of 1/Quantum32 of a score step.
WeightedSemantic(sw, s) == Round32(Round32(sw) * s)

\* keyword_weight * keyword_scores (line 231): float64, the arithmetic of
\* the Python expression sw * semantic + kw * keyword it is compared with.
WeightedKeyword(kw, k) == kw * k

\* One entry of combined_scores with the weights normalised to sum to one.
CombinedScore_Normalised(sw, kw, s, k) ==
    IF sw + kw = 0 THEN 0
    ELSE (Quantum32 * (WeightedSemantic(sw, s) + WeightedKeyword(kw, k)))
            \div (sw + kw)

\* One entry of combined_scores (lines 229-232), float64.
CombinedScore(sw, kw, s, k) == WeightedSemantic(sw, s) + WeightedKeyword(kw, k)

\* str.lower() on one character, and on a text.
Lower(c) ==
    CASE c = "F" -> "f" [] c = "H" -> "h" [] c = "O" -> "o" [] OTHER -> c
LowerStr(t) == [i \in 1..Len(t) |-> Lower(t[i])]

\* Python's `a in b` for two texts.
IsSubstr(a, b) ==
    \E k \in 0..(Len(b) - Len(a)) : SubSeq(b, k + 1, k + Len(a)) = a

\* A genre test that every record passes.
GenreMatches_Always(gf, b) == TRUE

\* any(gf in book_genres for gf in genre_filter_lower), lines 236-239.
GenreMatches(gf, b) ==
    \E j \in 1..Len(gf) : IsSubstr(LowerStr(gf[j]), LowerStr(b.genres))

\* The orders in which a sort may leave n equal values: ties[i] is the
\* rank of position i among its equals.
Orders(n) == {p \in [1..n -> 1..n] : \A i, j \in 1..n : i # j => p[i] # p[j]}

\* np.argsort(c): the positions of c in ascending order of value.  The
\* default kind is not a stable sort, so the order of equal values is the
\* build's (insertion sort keeps them in place, the vectorised sorts do
\* not); `ties` is that order.
ArgsortAsc(c, ties) ==
    LET n == Len(c)
        pos(i) == 1 + Cardinality({j \in 1..n :
                        c[j] < c[i] \/ (c[j] = c[i] /\ ties[j] < ties[i])})
    IN  [k \in 1..n |-> CHOOSE i \in 1..n : pos(i) = k]

\* A slice that keeps the ascending order.
Reverse_Ascending(a) == a

\* a[::-1]
Reverse(a) == [k \in 1..Len(a) |-> a[Len(a) + 1 - k]]

\* np.argsort(scores)[::-1] without the [:top_k] slice.
TopIndices_NoCut(scores, top_k, ties) == Reverse(ArgsortAsc(scores, ties))

\* np.argsort(scores)[::-1][:top_k], lines 243 and 284.
TopIndices(scores, top_k, ties) ==
    SubSeq(Reverse(ArgsortAsc(scores, ties)), 1, Min(top_k, Len(scores)))

\* The score test with >= in place of >.
Positive_OrZero(x) == x >= 0

\* `if combined_scores[idx] > 0`, lines 248 and 288.
Positive(x) == x > 0

\* The top indices whose score passes the test of lines 248 and 288.
Kept(scores, top_k, ties) ==
    SelectSeq(TopIndices(scores, top_k, ties),
              LAMBDA idx : Positive(scores[idx]))

\* Number of features of a fitted keyword space.
KeywordDim(vocab) == Cardinality(vocab)

\* -------------------------------------------------------------- search

\* The texts a query is compared with.
TextsPresent ==
    {r.emb : r \in Range(Rows(embeddings))} \cup
    {r.tf : r \in Range(Rows(tfidf_matrix))}

\* A query, by its similarities with the indexed texts (what model.encode,
\* transform and cosine_similarity make of it).
Queries ==
    [sem : [TextsPresent -> SemScores], key : [TextsPresent -> KeyScores]]

\* The genre_filter argument: none (None or []), or a list of terms.
GenreFilters == {<<>>, << <<"f", "a">> >>, << <<"H", "O">> >>}

\* A filter that also adds to the score of the records that pass it.
GenreFiltered_Boosted(gf, raw) ==
    IF gf = <<>> THEN raw
    ELSE [i \in 1..Len(raw) |->
            IF i <= Len(books) /\ ~GenreMatches(gf, books[i])
            THEN 0 ELSE raw[i] + Quantum32]

\* Lines 234-240: with a filter, combined_scores[i] = 0 for every record
\* that matches none of its terms; the other scores stay.
GenreFiltered(gf, raw) ==
    IF gf = <<>> THEN raw
    ELSE [i \in 1..Len(raw) |->
            IF i <= Len(books) /\ ~GenreMatches(gf, books[i])
            THEN 0 ELSE raw[i]]

Raises ==
    [outcome |-> "raised", out |-> <<>>, idxs |-> <<>>,
     raw |-> <<>>, combined |-> <<>>]

\* search(), lines 199-255, on the corpus as it stands.
SearchResult(q, top_k, sw, kw, gf, ties) ==
    IF embeddings = None \/ Len(books) = 0
    THEN [outcome |-> "returned", out |-> <<>>, idxs |-> <<>>,
          raw |-> <<>>, combined |-> <<>>]
    ELSE
    LET ls  == NRows(embeddings)
        lk  == NRows(tfidf_matrix)
        sem == [i \in 1..ls |-> q.sem[Rows(embeddings)[i].emb]]
        key == [i \in 1..lk |-> q.key[Rows(tfidf_matrix)[i].tf]]
        \* transform() needs a fitted vectorizer; cosine_similarity needs
        \* the query vector and the matrix to have the same width.
        keywordOk ==
            /\ tfidf_vectorizer # None
            /\ tfidf_vectorizer.fitted
            /\ tfidf_matrix # None
            /\ \A r \in Range(Rows(tfidf_matrix)) :
                  KeywordDim(r.vocab) = KeywordDim(tfidf_vectorizer.vocab)
        \* NumPy adds arrays of equal length, or stretches one of length 1.
        shapeOk == ls = lk \/ ls = 1 \/ lk = 1
        n   == IF ls >= lk THEN ls ELSE lk
        raw == [i \in 1..n |->
                  CombinedScore(sw, kw, sem[IF ls = 1 THEN 1 ELSE i],
                                        key[IF lk = 1 THEN 1 ELSE i])]
        \* Lines 237-240 raise on a record whose genres is None, and on
        \* writing past the end of combined_scores.
        filterOk ==
            \A i \in 1..Len(books) :
                /\ books[i].genres # NoGenres
                /\ (~GenreMatches(gf, books[i]) => i <= n)
        combined == GenreFiltered(gf, raw)
        kept == Kept(combined, top_k, ties)
        \* Lines 249-252 index books, semantic_scores and keyword_scores.
        resultOk ==
            \A k \in 1..Len(kept) :
                kept[k] <= Len(books) /\ kept[k] <= ls /\ kept[k] <= lk
    IN  IF ~keywordOk THEN Raises
        ELSE IF ~shapeOk THEN Raises
        ELSE IF gf # <<>> /\ ~filterOk THEN Raises
        ELSE IF ~resultOk THEN Raises
        ELSE [outcome |-> "returned",
              out |-> [k \in 1..Len(kept) |->
                        [book |-> books[kept[k]],
                         similarity_score |-> combined[kept[k]],
                         semantic_score |-> sem[kept[k]],
                         keyword_score |-> key[kept[k]]]],
              idxs |-> kept,
              raw |-> raw,
              combined |-> combined]

\* The length of the score array a search sorts (line 229), and of the one
\* recommend_similar sorts (line 278).
NScored == IF NRows(embeddings) >= NRows(tfidf_matrix)
           THEN NRows(embeddings) ELSE NRows(tfidf_matrix)

\* What every reader call records of the engine it ran on.
Observed ==
    [during |-> pc, nbooks |-> Len(books), nrows |-> NRows(embeddings)]

\* A search that writes the scores into the stored records it returns
\* (no .copy() at line 249).
Search_ScoresInPlace(q, top_k, sw, kw, gf, ties) ==
    /\ call = NoCall
    /\ LET res == SearchResult(q, top_k, sw, kw, gf, ties)
       IN  /\ call' = [op |-> "search", q |-> q, top_k |-> top_k, sw |-> sw,
                       kw |-> kw, gf |-> gf, seen |-> Observed, res |-> res]
           /\ books' = [i \in 1..Len(books) |->
                          IF \E k \in 1..Len(res.idxs) : res.idxs[k] = i
                          THEN [isbn |-> books[i].isbn,
                                title |-> books[i].title,
                                description |-> books[i].description,
                                genres |-> books[i].genres,
                                similarity_score |-> res.combined[i]]
                          ELSE books[i]]
    /\ UNCHANGED <<embeddings, tfidf_vectorizer, tfidf_matrix>>
    /\ UNCHANGED <<disk, pc, nbuilds, build, api, rebuild, etl>>

\* One search call, from entry to return; the engine is only read.
Search(q, top_k, sw, kw, gf, ties) ==
    /\ call = NoCall
    /\ call' = [op |-> "search", q |-> q, top_k |-> top_k, sw |-> sw,
                kw |-> kw, gf |-> gf, seen |-> Observed,
                res |-> SearchResult(q, top_k, sw, kw, gf, ties)]
    /\ UNCHANGED <<engine, disk, pc, nbuilds, build, api, rebuild, etl>>

\* A search past the guard of line 199 whose _load_model_lazy or
\* model.encode raises (lines 204-207).
SearchEncodeRaises ==
    /\ call = NoCall
    /\ ~(embeddings = None \/ Len(books) = 0)
    /\ call' = [op |-> "search", seen |-> Observed, res |-> Raises]
    /\ UNCHANGED <<engine, disk, pc, nbuilds, build, api, rebuild, etl>>

\* ---------------------------------------------------- recommend_similar

\* The isbn argument: the isbns of the catalog and one nobody has.
Isbns == {b.isbn : b \in Catalog} \cup {0}

\* The cosine similarity of an embedding with itself.
SelfSimilarity == CHOOSE m \in SemScores : \A x \in SemScores : x <= m

\* The model's similarities between the indexed texts, as far as a call
\* needs them.
EmbeddedTexts == {r.emb : r \in Range(Rows(embeddings))}
SimScores == SemScores \cup {1}
Similarities == [EmbeddedTexts -> SimScores]

\* The position of the first book with this isbn, 0 when there is none
\* (lines 260-264).
FindBook(isbn) ==
    IF \E i \in 1..Len(books) : books[i].isbn = isbn
    THEN CHOOSE i \in 1..Len(books) :
            /\ books[i].isbn = isbn
            /\ \A j \in 1..(i - 1) : books[j].isbn # isbn
    ELSE 0

\* recommend_similar(), lines 259-293, on the corpus as it stands.
RecommendResult(isbn, top_k, sim, ties) ==
    LET ref == FindBook(isbn)
    IN  IF ref = 0
        THEN [outcome |-> "returned", out |-> <<>>, idxs |-> <<>>, ref |-> 0]
        ELSE IF embeddings = None \/ ref > NRows(embeddings)
        THEN [outcome |-> "raised", out |-> <<>>, idxs |-> <<>>, ref |-> ref]
        ELSE
        LET rows == Rows(embeddings)
            similarities ==
                [i \in 1..Len(rows) |->
                    IF i = ref THEN -1
                    ELSE IF rows[i] = rows[ref] THEN SelfSimilarity
                    ELSE sim[rows[i].emb]]
            kept == Kept(similarities, top_k, ties)
        IN  IF \E k \in 1..Len(kept) : kept[k] > Len(books)
            THEN [outcome |-> "raised", out |-> <<>>, idxs |-> <<>>, ref |-> ref]
            ELSE [outcome |-> "returned",
                  out |-> [k \in 1..Len(kept) |->
                            [book |-> books[kept[k]],
                             similarity_score |-> similarities[kept[k]]]],
                  idxs |-> kept,
                  ref |-> ref]

\* One recommend_similar call, from entry to return.
RecommendSimilar(isbn, top_k, sim, ties) ==
    /\ call = NoCall
    /\ call' = [op |-> "recommend_similar", isbn |-> isbn, top_k |-> top_k,
                seen |-> Observed,
                res |-> RecommendResult(isbn, top_k, sim, ties)]
    /\ UNCHANGED <<engine, disk, pc, nbuilds, build, api, rebuild, etl>>

\* A reader call returns to its caller (lines 201, 255, 267, 293, or the
\* exception leaving the method); until then `call` holds what it did.
Respond ==
    /\ call # NoCall
    /\ call' = NoCall
    /\ UNCHANGED <<engine, disk, pc, nbuilds, build, api, rebuild, etl>>

\* ------------------------------------------------------------ behaviour

\* What index_books callers pass.
Inputs == SeqsUpTo(Catalog, MaxBooks)

\* The two files as a successful _save_index leaves them for a corpus of
\* the valid books bs.
SavedEmb(bs) ==
    [state |-> "ok", embeddings |-> Encode(Texts(bs)),
     tfidf_matrix |-> FitTransform(Texts(bs))]
SavedIdx(bs) ==
    [state |-> "ok", books |-> bs, tfidf_vectorizer |-> Fit(Texts(bs))]

\* The cache a process finds when it starts: no files, or the pair an
\* earlier run's index_books saved.
StartCaches ==
    {<<Absent, Absent>>} \cup
    {<<SavedEmb(ValidBooks(in)), SavedIdx(ValidBooks(in))>> :
        in \in {i \in Inputs : ValidBooks(i) # <<>>}}

\* The engine as constructed at process start over the cache it finds.
InitEngine ==
    /\ \E c \in StartCaches : embFile = c[1] /\ idxFile = c[2]
    /\ books = Loaded(embFile, idxFile).books
    /\ embeddings = Loaded(embFile, idxFile).embeddings
    /\ tfidf_vectorizer = Loaded(embFile, idxFile).tfidf_vectorizer
    /\ tfidf_matrix = Loaded(embFile, idxFile).tfidf_matrix
    /\ pc = "idle"
    /\ nbuilds = 0
    /\ build = NoBuild
    /\ call = NoCall

\* The module globals of an API process: which app it runs, whether its
\* import of the engine class succeeded (SEARCH_AVAILABLE), and whether
\* search_engine holds an engine or None.
ApiState(app, available, handle) ==
    [app |-> app, SEARCH_AVAILABLE |-> available, search_engine |-> handle]

\* main_search.py after import: line 36 has constructed the engine.
MainSearch == ApiState("main_search", TRUE, "engine")

\* An engine constructed at process start and used through its methods, or
\* held by main_search.py.
Init == InitEngine /\ api = MainSearch /\ rebuild = NoRebuild /\ NoEtl

\* Queries equally and positively similar to every indexed text.
UniformQueries ==
    {[sem |-> [t \in TextsPresent |-> SelfSimilarity],
      key |-> [t \in TextsPresent |-> k]] : k \in KeyScores}

\* The steps of construction and of index_books.
Lifecycle ==
    \/ Construct
    \/ call = NoCall /\ \E input \in Inputs, force \in BOOLEAN :
                            IndexBooks(input, force)
    \/ EncodeReturns
    \/ EncodeRaises
    \/ FitReturns
    \/ FitRaises
    \/ SaveEmbReturns
    \/ SaveEmbRaises
    \/ SaveIdxReturns
    \/ SaveIdxRaises

\* The engine's life: construction, index_books step by step, and reader
\* calls (with weights of one and uniform queries) at any point of it.
Next ==
    \/ Lifecycle
    \/ call = NoCall /\
          \E q \in UniformQueries, top_k \in 1..MaxTopK, gf \in GenreFilters,
             ties \in Orders(NScored) :
             Search(q, top_k, Quantum32, Quantum32, gf, ties)
    \/ SearchEncodeRaises
    \/ call = NoCall /\
          \E isbn \in Isbns, top_k \in 1..MaxTopK,
             ties \in Orders(NRows(embeddings)) :
             RecommendSimilar(isbn, top_k,
                              [t \in EmbeddedTexts |-> SelfSimilarity], ties)
    \/ Respond

Spec == Init /\ [][Next]_vars

\* One reader call, with any query, weights, filter and top_k, on an engine
\* constructed over any start cache.
NextRank ==
    \/ call = NoCall /\
          \E q \in Queries, top_k \in 1..MaxTopK, sw \in Weights,
             kw \in Weights, gf \in GenreFilters, ties \in Orders(NScored) :
             Search(q, top_k, sw, kw, gf, ties)
    \/ SearchEncodeRaises
    \/ call = NoCall /\
          \E isbn \in Isbns, top_k \in 1..MaxTopK, sim \in Similarities,
             ties \in Orders(NRows(embeddings)) :
             RecommendSimilar(isbn, top_k, sim, ties)
    \/ Respond

SpecRank == Init /\ [][NextRank]_vars

\* Corpora of up to MaxRecBooks records, so that a recommendation has
\* several candidates to order: the caches an earlier run saved for them.
RecommendCaches ==
    {<<SavedEmb(ValidBooks(in)), SavedIdx(ValidBooks(in))>> :
        in \in {i \in SeqsUpTo(Catalog, MaxRecBooks) : ValidBooks(i) # <<>>}}

\* The engine as constructed over one of them.
InitRecommend ==
    /\ \E c \in RecommendCaches : embFile = c[1] /\ idxFile = c[2]
    /\ books = Loaded(embFile, idxFile).books
    /\ embeddings = Loaded(embFile, idxFile).embeddings
    /\ tfidf_vectorizer = Loaded(embFile, idxFile).tfidf_vectorizer
    /\ tfidf_matrix = Loaded(embFile, idxFile).tfidf_matrix
    /\ pc = "idle"
    /\ nbuilds = 0
    /\ build = NoBuild
    /\ call = NoCall
    /\ api = MainSearch /\ rebuild = NoRebuild /\ NoEtl

\* recommend_similar calls with any similarities between the records and
\* any top_k up to the size of the corpus.
NextRecommend ==
    \/ call = NoCall /\
          \E isbn \in Isbns, top_k \in 1..MaxRecBooks, sim \in Similarities,
             ties \in Orders(NRows(embeddings)) :
             RecommendSimilar(isbn, top_k, sim, ties)
    \/ Respond

SpecRecommend == InitRecommend /\ [][NextRecommend]_vars

\* ------------------------------------------------------------ API layer

\* The globals of the three API modules once imported.  app.py (lines
\* 37-44, 86-108): the import of the engine class failed; or it succeeded
\* and init_search_engine returned None after an exception; or it returned
\* an engine.  app_optimized.py (lines 28-35, 91): the import failed or
\* succeeded, and search_engine is None until the first search.
ApiStarts ==
    { ApiState("app", FALSE, "None"),
      ApiState("app", TRUE, "None"),
      ApiState("app", TRUE, "engine"),
      ApiState("app_optimized", FALSE, "None"),
      ApiState("app_optimized", TRUE, "None"),
      MainSearch }

\* An API process after import, over any start cache.  While search_engine
\* is None there is no engine object: the engine variables hold what a
\* construction over the cache files loads.
InitApi == InitEngine /\ api \in ApiStarts /\ rebuild = NoRebuild /\ NoEtl

\* search_engine.search(...) as a handler calls it: it returns, or raises
\* (on a non-empty index also when loading the model or encoding the query
\* raises, lines 204-207).
SearchOutcome(q, top_k, sw, kw, ties, encode_ok) ==
    IF ~(embeddings = None \/ Len(books) = 0) /\ ~encode_ok THEN Raises
    ELSE SearchResult(q, top_k, sw, kw, <<>>, ties)

\* A search handler that answers 503 for an engine with an empty index.
SearchResponse_EmptyIs503(has_engine, res) ==
    IF ~has_engine \/ embeddings = None \/ Len(books) = 0
    THEN [status |-> 503, detail |-> "Search engine not initialized"]
    ELSE IF res.outcome = "raised"
    THEN [status |-> 500, detail |-> "exception"]
    ELSE [status |-> 200, count |-> Len(res.out), results |-> res.out]

\* What the search handlers answer (app.py lines 190-214, app_optimized.py
\* lines 166-197): 503 without an engine, 500 when search raised, else the
\* results and their count.
SearchResponse(has_engine, res) ==
    IF ~has_engine
    THEN [status |-> 503, detail |-> "Search engine not initialized"]
    ELSE IF res.outcome = "raised"
    THEN [status |-> 500, detail |-> "exception"]
    ELSE [status |-> 200, count |-> Len(res.out), results |-> res.out]

\* POST /api/search of app.py, lines 188-214.
ApiSearch(q, top_k, sw, kw, ties, encode_ok) ==
    /\ api.app = "app"
    /\ call = NoCall
    /\ LET has_engine == api.search_engine = "engine"
           res == SearchOutcome(q, top_k, sw, kw, ties, encode_ok)
       IN  call' = [op |-> "POST /api/search", entry |-> api,
                    seen |-> Observed, res |-> res,
                    response |-> SearchResponse(has_engine, res)]
    /\ UNCHANGED <<engine, disk, pc, nbuilds, build, api, rebuild, etl>>

\* POST /api/search of app_optimized.py, lines 160-197: with search_engine
\* None it answers 503 when the import had failed, else it calls
\* init_search_engine, which constructs an engine over the cache files or,
\* on an exception, returns None (503 again).
ApiSearchLazy(q, top_k, sw, kw, ties, encode_ok, init_ok) ==
    /\ api.app = "app_optimized"
    /\ call = NoCall
    /\ LET held == api.search_engine = "engine"
           constructs == ~held /\ api.SEARCH_AVAILABLE /\ init_ok
           has_engine == held \/ constructs
           res == SearchOutcome(q, top_k, sw, kw, ties, encode_ok)
       IN  /\ constructs => Corpus = Loaded(embFile, idxFile)
           /\ api' = IF constructs
                     THEN [api EXCEPT !.search_engine = "engine"]
                     ELSE api
           /\ call' = [op |-> "POST /api/search", entry |-> api,
                       seen |-> Observed, res |-> res,
                       response |-> SearchResponse(has_engine, res)]
    /\ UNCHANGED <<engine, disk, pc, nbuilds, build, rebuild, etl>>

\* A recommend handler that answers 200 with an empty list.
RecommendResponse_EmptyIs200(res) ==
    IF res.outcome = "raised"
    THEN [status |-> 500, detail |-> "Recommendation failed"]
    ELSE [status |-> 200, count |-> Len(res.out), recommendations |-> res.out]

\* What the recommend handler answers (main_search.py lines 280-295): 404
\* for an empty result, 500 when recommend_similar raised.
RecommendResponse(res) ==
    IF res.outcome = "raised"
    THEN [status |-> 500, detail |-> "Recommendation failed"]
    ELSE IF res.out = <<>>
    THEN [status |-> 404, detail |-> "No recommendations found"]
    ELSE [status |-> 200, count |-> Len(res.out), recommendations |-> res.out]

\* GET /recommend/{isbn} of main_search.py, lines 271-295.
ApiRecommend(isbn, top_k, sim, ties) ==
    /\ api.app = "main_search"
    /\ call = NoCall
    /\ LET res == RecommendResult(isbn, top_k, sim, ties)
       IN  call' = [op |-> "GET /recommend", isbn |-> isbn, top_k |-> top_k,
                    entry |-> api, seen |-> Observed, res |-> res,
                    response |-> RecommendResponse(res)]
    /\ UNCHANGED <<engine, disk, pc, nbuilds, build, api, rebuild, etl>>

\* POST /api/rebuild-index up to its call of index_books (app.py lines
\* 218-233, app_optimized.py lines 200-213, main_search.py lines 299-322):
\* 503 when the import had failed, else search_engine becomes a new engine
\* over the cache files.  The call of index_books that follows is
\* IndexBooks and its steps; a request begins when none is running, and
\* within the run's bound on index_books calls.
ApiRebuild ==
    /\ api.SEARCH_AVAILABLE
    /\ pc = "idle"
    /\ nbuilds < MaxBuilds
    /\ api' = [api EXCEPT !.search_engine = "engine"]
    /\ rebuild' = [requested |-> TRUE, search_engine |-> api.search_engine,
                   corpus |-> Corpus]
    /\ LET c == Loaded(embFile, idxFile)
       IN  /\ books' = c.books
           /\ embeddings' = c.embeddings
           /\ tfidf_vectorizer' = c.tfidf_vectorizer
           /\ tfidf_matrix' = c.tfidf_matrix
    /\ pc' = "idle"
    /\ build' = [NoBuild EXCEPT !.after = build.outcome]
    /\ call = NoCall /\ UNCHANGED <<call, etl>>
    /\ UNCHANGED <<disk, nbuilds>>

\* The rest of a rebuild-index handler: index_books(books,
\* force_reindex=True) on the new engine, with the rows of the database
\* (not empty, or the handler had returned before the swap).
RebuildIndexes ==
    /\ rebuild.requested
    /\ call = NoCall
    /\ \E input \in Inputs \ {<<>>} : IndexBooks(input, TRUE)

\* The steps of a running index_books call.
BuildSteps ==
    \/ EncodeReturns
    \/ EncodeRaises
    \/ FitReturns
    \/ FitRaises
    \/ SaveEmbReturns
    \/ SaveEmbRaises
    \/ SaveIdxReturns
    \/ SaveIdxRaises

\* An API process: requests to its search, recommend and rebuild handlers.
\* In it, only a rebuild-index handler calls index_books.
NextApi ==
    \/ ApiRebuild
    \/ RebuildIndexes
    \/ BuildSteps
    \/ call = NoCall /\
          \E q \in UniformQueries, top_k \in 1..MaxTopK,
             ties \in Orders(NScored), encode_ok \in BOOLEAN :
             ApiSearch(q, top_k, Quantum32, Quantum32, ties, encode_ok)
    \/ call = NoCall /\
          \E q \in UniformQueries, top_k \in 1..MaxTopK,
             ties \in Orders(NScored), encode_ok \in BOOLEAN,
             init_ok \in BOOLEAN :
             ApiSearchLazy(q, top_k, Quantum32, Quantum32, ties,
                           encode_ok, init_ok)
    \/ call = NoCall /\
          \E isbn \in Isbns, top_k \in 1..MaxTopK,
             ties \in Orders(NRows(embeddings)) :
             ApiRecommend(isbn, top_k,
                          [t \in EmbeddedTexts |-> SelfSimilarity], ties)
    \/ Respond

SpecApi == InitApi /\ [][NextApi]_vars

\* ------------------------------------------------------------ enrichment

\* The titles of the books in the CSV file handed to the script.
Titles == {"A", "B", "C"}

\* A missing value in a DataFrame read from a CSV file.
NaN == [nan |-> TRUE]

\* The empty string, and the description and genre the APIs hold for a
\* title.
EmptyText == [text |-> <<>>]
DescriptionOf(t) == [text |-> <<"description", t>>]
GenreOf(t) == [text |-> <<"genre", t>>]

\* What process_single_book can come back with for a title (lines
\* 112-140): each of description and genre is found or not, and an API may
\* hold an empty description.
Fetches(t) ==
    {[description |-> d, genre |-> g] :
        d \in {None, EmptyText, DescriptionOf(t)}, g \in {None, GenreOf(t)}}

\* bool(description)
Truthy(d) == d # None /\ d # EmptyText

\* pd.isna / pd.notna on a cell.
IsNa(v) == v = None \/ v = NaN

\* A cell written by to_csv and read back by read_csv: a missing value and
\* an empty string are both written as an empty field, which reads as NaN.
CsvCell(v) == IF IsNa(v) \/ v = EmptyText THEN NaN ELSE v

\* A frame written by to_csv(index=False) and read back by read_csv: the
\* rows in order, renumbered from the first.
CsvRoundTrip(df) ==
    [i \in 1..Len(df) |->
        [title |-> df[i].title,
         description |-> CsvCell(df[i].description),
         genre |-> CsvCell(df[i].genre)]]

\* df.dropna(subset=['description'])
DropNa(df) == SelectSeq(df, LAMBDA row : ~IsNa(row.description))

\* df[df['description'].isna()]
OnlyNa(df) == SelectSeq(df, LAMBDA row : IsNa(row.description))

\* Results left in the order the futures completed.
SortedByIndex_AsCompleted(rs) == rs

\* results.sort(key=lambda x: x['index']), line 208; list.sort is stable.
SortedByIndex(rs) ==
    LET rank(j) == 1 + Cardinality({m \in 1..Len(rs) :
                        \/ rs[m].index < rs[j].index
                        \/ rs[m].index = rs[j].index /\ m < j})
    IN  [k \in 1..Len(rs) |-> rs[CHOOSE j \in 1..Len(rs) : rank(j) = k]]

\* Lines 208-216 of enrich_parallel: the results are sorted by index, their
\* descriptions and genres become the two columns, row by position, and
\* the rows without a description are dropped.
Attached(df, results) ==
    LET rs == SortedByIndex(results)
    IN  [i \in 1..Len(df) |->
            [title |-> df[i].title,
             description |-> rs[i].description,
             genre |-> rs[i].genre]]

\* The frame enrich_parallel starts from: the rows of the CSV file.
Frame(titles) ==
    [i \in 1..Len(titles) |->
        [title |-> titles[i], description |-> NaN, genre |-> NaN]]

\* Lines 274-278 of enrich_with_retry: every row of the retried file that
\* has a description is written over the row of df at the position
\* df.index[idx], idx being the row's number in the retried file.
RECURSIVE Merged(_, _, _)
Merged(df, retry_df, idx) ==
    IF idx > Len(retry_df) THEN df
    ELSE IF ~IsNa(retry_df[idx].description)
    THEN Merged([df EXCEPT ![idx] =
                    [@ EXCEPT !.description = retry_df[idx].description,
                              !.genre = retry_df[idx].genre]],
                retry_df, idx + 1)
    ELSE Merged(df, retry_df, idx + 1)

\* The engine, untouched by the enrichment script and by the database.
EngineIdle ==
    /\ UNCHANGED <<engine, disk, pc, nbuilds, build, call, api, rebuild>>

\* The CSV files handed to the script: up to MaxRows books, each title
\* once.
CsvInputs ==
    {ts \in SeqsUpTo(Titles, MaxRows) :
        Len(ts) >= 1 /\ \A i, j \in 1..Len(ts) : i # j => ts[i] # ts[j]}

\* One pass of enrich_parallel up to the submission of the futures (lines
\* 141-190): the frame, a future per row, no result yet.
Pass(df) ==
    [df |-> df, pending |-> 1..Len(df), results |-> <<>>]

\* enrich_with_retry(csv_path, output_path, max_retries) begins: pass 1 is
\* enrich_parallel on the input file.  `first` and `second` record what
\* each pass attached before dropping rows, `retried` the frame the retry
\* pass was run on.
EnrichWithRetry(titles, max_retries) ==
    /\ enrich = NoEnrich
    /\ enrich' = [pc |-> "pass1", max_retries |-> max_retries,
                  input |-> titles, run |-> Pass(Frame(titles)),
                  df |-> <<>>, output |-> None, failed |-> None,
                  first |-> <<>>, retried |-> <<>>, second |-> <<>>]
    /\ UNCHANGED <<table, dbcall>>
    /\ EngineIdle

\* as_completed yields the future of row i (lines 192-196): the worker ran
\* process_single_book on it and its result joins the list.
WorkerCompletes(i, f) ==
    /\ enrich.pc \in {"pass1", "retry"}
    /\ i \in enrich.run.pending
    /\ enrich' = [enrich EXCEPT
          !.run.pending = @ \ {i},
          !.run.results = Append(@,
              [index |-> i, title |-> enrich.run.df[i].title,
               description |-> f.description, genre |-> f.genre,
               success |-> Truthy(f.description)])]
    /\ UNCHANGED <<table, dbcall>>
    /\ EngineIdle

\* Pass 1 ends (lines 208-222) and enrich_with_retry goes on (lines
\* 251-268): it reads the output file back, and with rows lacking a
\* description and max_retries > 0 it saves those rows and starts
\* enrich_parallel on them.
FirstPassEnds ==
    /\ enrich.pc = "pass1"
    /\ enrich.run.pending = {}
    /\ LET attached == Attached(enrich.run.df, enrich.run.results)
           df == CsvRoundTrip(DropNa(attached))
           total == Len(df)
           with_desc == Len(DropNa(df))
           failed_df == OnlyNa(df)
       IN  IF with_desc < total /\ enrich.max_retries > 0 /\ Len(failed_df) > 0
           THEN enrich' = [enrich EXCEPT
                    !.pc = "retry", !.df = df, !.output = df,
                    !.failed = CsvRoundTrip(failed_df),
                    !.first = attached,
                    !.retried = CsvRoundTrip(failed_df),
                    !.run = Pass(CsvRoundTrip(failed_df))]
           ELSE enrich' = [enrich EXCEPT
                    !.pc = "done", !.df = df, !.output = df,
                    !.first = attached]
    /\ UNCHANGED <<table, dbcall>>
    /\ EngineIdle

\* The retry pass ends (lines 208-222, writing over the file of failed
\* rows) and enrich_with_retry merges it (lines 271-284).
RetryPassEnds ==
    /\ enrich.pc = "retry"
    /\ enrich.run.pending = {}
    /\ LET attached == Attached(enrich.run.df, enrich.run.results)
           retry_df == CsvRoundTrip(DropNa(attached))
           merged == Merged(enrich.df, retry_df, 1)
       IN  enrich' = [enrich EXCEPT
               !.pc = "done", !.failed = retry_df,
               !.second = attached,
               !.df = DropNa(merged),
               !.output = CsvRoundTrip(DropNa(merged))]
    /\ UNCHANGED <<table, dbcall>>
    /\ EngineIdle

\* A run of the enrichment script beside an engine that nothing touches.
InitEnrich ==
    /\ InitEngine /\ embFile = Absent
    /\ api = MainSearch /\ rebuild = NoRebuild /\ NoEtl

NextEnrich ==
    \/ \E titles \in CsvInputs, max_retries \in {0, 2} :
          EnrichWithRetry(titles, max_retries)
    \/ enrich.pc \in {"pass1", "retry"} /\
          \E i \in enrich.run.pending :
             \E f \in Fetches(enrich.run.df[i].title) : WorkerCompletes(i, f)
    \/ FirstPassEnds
    \/ RetryPassEnds

SpecEnrich == InitEnrich /\ [][NextEnrich]_vars

\* -------------------------------------------------------------- database

\* The records callers hand to insert_books_batch: the output of
\* clean_all_books, where every record has an isbn and a title
\* (clean_books.py lines 152-160).
CleanedBooks ==
    {[isbn |-> i, title |-> t] : i \in {"x1", "x2"}, t \in {"t", "u"}}
Batches == SeqsUpTo(CleanedBooks, MaxBatch)

\* A record's title or isbn that is None (NULL in the table).
NoTitle == "<None>"
NoIsbn == "<None>"

\* An insert that overwrites the stored row (INSERT OR REPLACE).
InsertBook_OrReplace(rows, book) ==
    IF book.title = NoTitle THEN [ok |-> FALSE, rows |-> rows]
    ELSE [ok |-> TRUE,
          rows |-> SelectSeq(rows, LAMBDA r : r.isbn # book.isbn)
                       \o <<book>>]

\* insert_book, lines 65-81: the INSERT fails with IntegrityError, caught,
\* on a NULL title (title TEXT NOT NULL) and on an isbn that a row already
\* has (isbn TEXT PRIMARY KEY; SQLite lets NULL keys repeat).
InsertBook(rows, book) ==
    IF \/ book.title = NoTitle
       \/ book.isbn # NoIsbn /\ \E i \in 1..Len(rows) : rows[i].isbn = book.isbn
    THEN [ok |-> FALSE, rows |-> rows]
    ELSE [ok |-> TRUE, rows |-> Append(rows, book)]

\* The loop of insert_books_batch, lines 85-92.
RECURSIVE InsertBatch(_, _, _, _)
InsertBatch(rows, batch, inserted, duplicates) ==
    IF batch = <<>>
    THEN [rows |-> rows, inserted |-> inserted, duplicates |-> duplicates]
    ELSE LET r == InsertBook(rows, Head(batch))
         IN  IF r.ok
             THEN InsertBatch(r.rows, Tail(batch), inserted + 1, duplicates)
             ELSE InsertBatch(r.rows, Tail(batch), inserted, duplicates + 1)

\* insert_books_batch(books), lines 83-95: the loop, the commit, and the
\* pair it returns.
InsertBooksBatch(batch) ==
    /\ dbcall.calls < MaxInserts
    /\ LET done == InsertBatch(table, batch, 0, 0)
       IN  /\ table' = done.rows
           /\ dbcall' = [op |-> "insert_books_batch",
                         calls |-> dbcall.calls + 1,
                         books |-> batch, before |-> table,
                         returns |-> <<done.inserted, done.duplicates>>]
    /\ UNCHANGED enrich
    /\ EngineIdle

\* create_schema, lines 42-63: CREATE TABLE IF NOT EXISTS on a database
\* that has the table leaves its rows.
CreateSchema ==
    /\ UNCHANGED <<enrich, table, dbcall>>
    /\ EngineIdle

\* A database whose schema was created, beside an engine that nothing
\* touches.
InitDb == InitEnrich

NextDb ==
    \/ \E batch \in Batches : InsertBooksBatch(batch)
    \/ CreateSchema

SpecDb == InitDb /\ [][NextDb]_vars

\* ----------------------------------------------------------- properties

\* The three parallel collections have one length and row i of each was
\* computed from books[i].
AlignedCorpus ==
    /\ Len(books) = NRows(embeddings)
    /\ Len(books) = NRows(tfidf_matrix)
    /\ \A i \in 1..Len(books) :
          /\ Rows(embeddings)[i].emb = TextOf(books[i])
          /\ Rows(tfidf_matrix)[i].tf = TextOf(books[i])

\* The corpus is that of one build: aligned, and the keyword rows lie in
\* the space of the vectorizer the engine holds.
WholeCorpus ==
    /\ AlignedCorpus
    /\ \A r \in Range(Rows(tfidf_matrix)) :
          /\ tfidf_vectorizer # None
          /\ tfidf_vectorizer.fitted
          /\ tfidf_vectorizer.vocab = r.vocab

\* search's and recommend_similar's notion of an empty index.
IndexEmpty == embeddings = None \/ Len(books) = 0

SearchReturned == call.op = "search" /\ call.res.outcome = "returned"

\* C1: between calls (no index_books running), books, embeddings and the
\* keyword matrix have the same number of rows and row i of each belongs
\* to the same book.
C1_RecordsVectorsAligned == pc = "idle" => AlignedCorpus

\* C2: an index_books call in which the embedding call or the keyword
\* fitting raised has changed none of books, embeddings, tfidf_vectorizer,
\* tfidf_matrix.
C2_FailedBuildChangesNothing ==
    (build.outcome = "raised" /\ build.stage \in {"encode", "fit"})
        => build.dirty = {}

\* C3: a search that returns while a forced index_books is running has run
\* on a whole corpus (the one before or the one after the rebuild), so on
\* as many records as vectors.
C3_SearchDuringRebuildSeesWholeCorpus ==
    (call.op = "search" /\ pc # "idle" /\ build.force)
        => (WholeCorpus /\ call.seen.nbooks = call.seen.nrows)

\* The two cache files are both readable.
BothReadable == embFile.state = "ok" /\ idxFile.state = "ok"

\* Two readable cache files that are not one build's pair: they disagree
\* in the number of rows or in the width of the keyword space.
MismatchedPair ==
    /\ BothReadable
    /\ \/ NRows(embFile.embeddings) # Len(idxFile.books)
       \/ NRows(embFile.tfidf_matrix) # Len(idxFile.books)
       \/ \E r \in Range(Rows(embFile.tfidf_matrix)) :
             KeywordDim(r.vocab) # KeywordDim(idxFile.tfidf_vectorizer.vocab)

\* C4: an engine constructed over a mismatched pair of cache files (and not
\* indexed since) is empty: no records, no embeddings.
C4_MismatchedPairLoadsEmpty ==
    (build.outcome = "none" /\ MismatchedPair)
        => (books = <<>> /\ embeddings = None)

\* C5: a search or recommend_similar call on an empty index, with no
\* index_books running, returns the empty sequence.
C5_EmptyIndexReturnsEmpty ==
    (call.op \in {"search", "recommend_similar"} /\ pc = "idle" /\ IndexEmpty)
        => (call.res.outcome = "returned" /\ call.res.out = <<>>)

Abs(x) == IF x < 0 THEN -x ELSE x

\* The positions of combined_scores with a score above zero.
PositiveIdx(c) == {i \in 1..Len(c) : c[i] > 0}

\* C6: a search called with top_k >= 1 that returns, returns at most top_k
\* results.
C6_AtMostTopK == SearchReturned => Len(call.res.out) <= call.top_k

\* C6 at work: a search returned exactly top_k results although more than
\* top_k records had a positive combined score.
C6_Witness ==
    /\ SearchReturned
    /\ Len(call.res.out) = call.top_k
    /\ Cardinality(PositiveIdx(call.res.combined)) > call.top_k

\* C7: every result of a search has similarity_score > 0, and every record
\* with a positive combined score that fewer than top_k other records equal
\* or beat is among the results; so the number of results is top_k or the
\* number of positive records, whichever is less.
C7_PositiveScoresKept ==
    SearchReturned =>
        LET c == call.res.combined
            returned == Range(call.res.idxs)
        IN  /\ \A k \in 1..Len(call.res.out) :
                  /\ call.res.out[k].similarity_score > 0
                  /\ call.res.out[k].similarity_score = c[call.res.idxs[k]]
            /\ \A i \in PositiveIdx(c) :
                  Cardinality({j \in 1..Len(c) : j # i /\ c[j] >= c[i]})
                      < call.top_k
                  => i \in returned
            /\ Len(call.res.out) =
                  Min(call.top_k, Cardinality(PositiveIdx(c)))

\* C7 at work: a search returned some record and left out a record that
\* was within the first top_k positions but whose score was not positive.
C7_Witness ==
    /\ SearchReturned
    /\ Len(call.res.out) >= 1
    /\ Len(call.res.out) < Min(call.top_k, Len(call.res.combined))
    /\ \E i \in 1..Len(call.res.combined) : call.res.combined[i] < 0

\* C8: the results of a search are in descending order of combined score,
\* records of equal score in corpus order, and a record left out at the
\* top_k cut-off does not precede in that order a record returned.
C8_DescendingStableOrder ==
    SearchReturned =>
        LET c == call.res.combined
            idxs == call.res.idxs
            Before(i, j) == c[i] > c[j] \/ (c[i] = c[j] /\ i < j)
        IN  /\ \A k \in 1..(Len(idxs) - 1) : Before(idxs[k], idxs[k + 1])
            /\ \A j \in PositiveIdx(c) \ Range(idxs) :
                  \A k \in 1..Len(idxs) : Before(idxs[k], j)

\* A term is contained in a genre text, letter case apart.
ContainsIgnoringCase(term, text) ==
    \E o \in 0..(Len(text) - Len(term)) :
        \A m \in 1..Len(term) : Lower(term[m]) = Lower(text[o + m])

\* C9: every record a search with a non-empty genre filter returns has a
\* genre text that contains one of the filter's terms, letter case apart,
\* whatever the scores.
C9_GenreFilterHonoured ==
    (SearchReturned /\ call.gf # <<>>) =>
        \A k \in 1..Len(call.res.out) :
            \E j \in 1..Len(call.gf) :
                ContainsIgnoringCase(call.gf[j], call.res.out[k].book.genres)

\* C9 at work: over a corpus with a Fantasy and a Horror record, a search
\* filtered on "fa" returned the Fantasy record only, although the Horror
\* record had the higher raw score.
C9_Witness ==
    /\ SearchReturned
    /\ call.gf = << <<"f", "a">> >>
    /\ Len(call.res.out) >= 1
    /\ \A k \in 1..Len(call.res.out) : call.res.out[k].book.genres = Fantasy
    /\ \E i \in 1..Len(books) :
          /\ books[i].genres = Horror
          /\ \A k \in 1..Len(call.res.out) :
                call.res.raw[i] > call.res.out[k].similarity_score

\* The weighted sum of a result's two scores, computed in float64 as the
\* Python expression semantic_weight * semantic_score + keyword_weight *
\* keyword_score computes it.
WeightedSum(r) == call.sw * r.semantic_score + call.kw * r.keyword_score

RecommendReturned ==
    call.op = "recommend_similar" /\ call.res.outcome = "returned"

Described(input) == {i \in 1..Len(input) : input[i].description # <<>>}

\* The k-th smallest member of a set of positions.
Nth(S, k) == CHOOSE i \in S : Cardinality({j \in S : j < i}) = k - 1

\* `bs` is the records of `input` that have a description, in input order.
IsDescribedSubsequence(bs, input) ==
    /\ Len(bs) = Cardinality(Described(input))
    /\ \A k \in 1..Len(bs) : bs[k] = input[Nth(Described(input), k)]

\* C13: an index_books call without force_reindex on an engine that has
\* embeddings returns at the guard and changes neither the corpus nor the
\* cache files; a call with force_reindex that returns normally leaves the
\* corpus of exactly the described records of its input, whole and saved.
C13_NoOpUnlessForced ==
    [][ /\ (pc = "idle" /\ build' # build /\ build'.outcome # "none"
               /\ ~build'.force /\ embeddings # None)
            => (build'.outcome = "exists" /\ UNCHANGED <<engine, disk>>)
        /\ (build' # build /\ build'.outcome = "ok" /\ build'.force)
            => /\ IsDescribedSubsequence(books', build'.input)
               /\ WholeCorpus'
               /\ embFile' = SavedEmb(books')
               /\ idxFile' = SavedIdx(books') ]_vars

\* C13 at work: after a forced rebuild replaced a loaded corpus by another
\* one, a call without force_reindex returned at the guard.
C13_Witness ==
    /\ build.outcome = "exists"
    /\ ~build.force
    /\ nbuilds = 1
    /\ WholeCorpus
    /\ idxFile = SavedIdx(books)
    /\ ValidBooks(build.input) # books

\* C14: after an index_books call that returned normally, books is exactly
\* the records of its input that have a description, in input order, one
\* embedding row and one keyword row for each; and no record that search
\* or recommend_similar returns lacks a description.
C14_OnlyDescribedRecordsIndexed ==
    /\ (pc = "idle" /\ build.outcome = "ok") =>
          /\ IsDescribedSubsequence(books, build.input)
          /\ AlignedCorpus
    /\ \A i \in 1..Len(books) : books[i].description # <<>>
    /\ (call.op \in {"search", "recommend_similar"}) =>
          \A k \in 1..Len(call.res.out) :
              call.res.out[k].book.description # <<>>

\* C14 at work: an index_books call whose input held a record without a
\* description between or before described ones returned normally, and a
\* search then returned a record.
C14_Witness ==
    /\ pc = "idle"
    /\ build.outcome = "ok"
    /\ Len(books) >= 1
    /\ Len(books) < Len(build.input)
    /\ call.op = "search"
    /\ Len(call.res.out) >= 1

\* C15: an index_books call that returned normally returned a report
\* counting the records it indexed and the records it dropped for lacking
\* a description.
C15_ReturnsBuildReport ==
    (pc = "idle" /\ build.outcome = "ok") =>
        build.returns =
            [indexed |-> Cardinality(Described(build.input)),
             skipped |-> Len(build.input) - Cardinality(Described(build.input))]

\* C16: constructing an engine over the cache files that an index_books
\* call which returned normally has saved gives the corpus that call left:
\* the same records, embeddings, keyword matrix and fitted vectorizer, and
\* so the same search results for every query, weights, filter and top_k.
C16_SaveLoadRoundTrip ==
    [][ (pc = "idle" /\ build.outcome = "ok" /\ build'.outcome = "none") =>
            /\ books' = books
            /\ embeddings' = embeddings
            /\ tfidf_matrix' = tfidf_matrix
            /\ tfidf_vectorizer' = tfidf_vectorizer
            /\ \A q \in UniformQueries, top_k \in 1..MaxTopK,
                  gf \in GenreFilters, ties \in Orders(NScored) :
                  SearchResult(q, top_k, Quantum32, Quantum32, gf, ties)' =
                  SearchResult(q, top_k, Quantum32, Quantum32, gf, ties)
      ]_vars

\* C16 at work: an engine constructed right after an index_books call
\* that returned normally, over the files that call saved, answered a
\* search with a result.
C16_Witness ==
    /\ build.outcome = "none"
    /\ build.after = "ok"
    /\ embFile = SavedEmb(books)
    /\ idxFile = SavedIdx(books)
    /\ WholeCorpus
    /\ call.op = "search"
    /\ Len(call.res.out) >= 1

\* C18: the index is empty or ready.  A call of index_books that found it
\* empty and did not return normally from a build (it raised, or returned
\* at one of its two guards) leaves it empty; and no step of index_books,
\* search or recommend_similar takes a ready index back to empty.
C18_EmptyReadyMachine ==
    [][ /\ (pc' = "idle" /\ build'.outcome \in {"raised", "exists", "novalid"}
               /\ build'.found = "empty")
            => IndexEmpty'
        /\ (~IndexEmpty /\ build'.outcome # "none") => ~IndexEmpty' ]_vars

\* C20: an index_books call whose input has no record with a description
\* returns at a guard, with or without force_reindex, and changes neither
\* the corpus nor the cache files.
C20_NoValidRecordsNoOp ==
    [][ (pc = "idle" /\ build' # build /\ build'.outcome # "none"
            /\ Described(build'.input) = {})
        => /\ build'.outcome \in {"novalid", "exists"}
           /\ (build'.force => build'.outcome = "novalid")
           /\ pc' = "idle"
           /\ UNCHANGED <<engine, disk>> ]_vars

\* C20 at work: a forced call with records, none of which has a
\* description, returned at the guard on an engine that holds a corpus.
C20_Witness ==
    /\ build.outcome = "novalid"
    /\ build.force
    /\ Len(build.input) >= 1
    /\ ~IndexEmpty
    /\ pc = "idle"

\* C12: recommend_similar given an identifier that no indexed record
\* carries returns the empty sequence without raising, and the recommend
\* endpoint answers an empty result with 404, never 500.
UnknownIsbn == \A i \in 1..Len(books) : books[i].isbn # call.isbn
C12_UnknownIdIsEmptyAnd404 ==
    call.op = "GET /recommend" =>
        /\ UnknownIsbn =>
              call.res.outcome = "returned" /\ call.res.out = <<>>
        /\ (call.res.outcome = "returned" /\ call.res.out = <<>>) =>
              call.response.status = 404
C12_Witness ==
    /\ call.op = "GET /recommend"
    /\ UnknownIsbn
    /\ ~IndexEmpty /\ AlignedCorpus
    /\ call.res.out = <<>>
    /\ call.response.status = 404

\* C19: the search endpoint answers a query against an engine whose index
\* is empty with a successful response of zero results; it answers 503
\* only when there is no engine (the import failed or initialisation
\* failed), never because the index is empty.
EngineHeld == api.search_engine = "engine"
C19_EmptyIndexIsNot503 ==
    call.op = "POST /api/search" =>
        /\ (EngineHeld /\ IndexEmpty) =>
              call.response.status = 200 /\ call.response.count = 0
        /\ call.response.status = 503 =>
              ~EngineHeld /\ call.entry.search_engine = "None"
C19_Witness ==
    /\ call.op = "POST /api/search"
    /\ EngineHeld /\ IndexEmpty
    /\ call.response.status = 200 /\ call.response.count = 0
C19_Witness503 ==
    /\ call.op = "POST /api/search"
    /\ call.response.status = 503
    /\ call.entry.SEARCH_AVAILABLE
    /\ ~IndexEmpty


\* C21: the cache is one unit.  An engine constructed over the cache files
\* (and not indexed since) has loaded nothing, or the records, vectors and
\* keyword space of one build; this holds also after a _save_index that
\* was interrupted between its two writes.
C21_CacheLoadsWholePairOrNothing ==
    build.outcome = "none" =>
        \/ books = <<>> /\ embeddings = None
        \/ WholeCorpus


\* C26: a rebuild-index request whose index_books raises leaves the
\* search_engine handle, and the corpus that search requests see, as they
\* were when the request began.
C26_FailedRebuildKeepsServingEngine ==
    [][ (/\ rebuild.requested
         /\ build.outcome = "running" /\ build.force
         /\ build'.outcome = "raised")
            => /\ api'.search_engine = rebuild.search_engine
               /\ Corpus' = rebuild.corpus ]_vars


\* C27: a search with a non-empty genre filter over a ready corpus returns
\* (the filter itself never raises), also when a record's genres is null,
\* and no record without genres is among its results.
C27_GenreFilterToleratesNoGenres ==
    (/\ call.op = "search" /\ "gf" \in DOMAIN call /\ call.gf # <<>>
     /\ WholeCorpus /\ ~IndexEmpty)
        => /\ call.res.outcome = "returned"
           /\ \A k \in 1..Len(call.res.out) :
                 call.res.out[k].book.genres # NoGenres


\* C23: recommend_similar for an identifier present in a ready corpus
\* returns at most top_k results, each with a similarity_score above 0, in
\* descending order of similarity_score.
KnownIsbn == \E i \in 1..Len(books) : books[i].isbn = call.isbn
C23_RecommendTopKPositiveDescending ==
    (RecommendReturned /\ KnownIsbn /\ WholeCorpus /\ ~IndexEmpty) =>
        /\ Len(call.res.out) <= call.top_k
        /\ \A k \in 1..Len(call.res.out) :
              call.res.out[k].similarity_score > 0
        /\ \A k \in 1..(Len(call.res.out) - 1) :
              call.res.out[k].similarity_score
                  >= call.res.out[k + 1].similarity_score

\* C23 at work: of three records, the reference's two neighbours came back
\* in descending order of two different similarities.
C23_Witness ==
    /\ RecommendReturned /\ KnownIsbn /\ WholeCorpus
    /\ Len(books) = 3
    /\ Len(call.res.out) = 2
    /\ call.res.out[1].similarity_score > call.res.out[2].similarity_score
    /\ call.res.out[2].similarity_score > 0


\* C24: a genre filter only gates inclusion.  A record that a filtered
\* search returns carries the semantic_score, keyword_score and
\* similarity_score that the same search without the filter computes for
\* it, and reports for it whenever it returns it too.
Unfiltered(top_k, ties) ==
    SearchResult(call.q, top_k, call.sw, call.kw, <<>>, ties)
C24_FilterLeavesScoresAlone ==
    (SearchReturned /\ call.gf # <<>>) =>
        \A top_k \in 1..MaxTopK, ties \in Orders(NScored) :
            LET u == Unfiltered(top_k, ties)
            IN  /\ u.outcome = "returned"
                /\ \A a \in 1..Len(call.res.out) :
                      /\ call.res.out[a].similarity_score
                            = u.raw[call.res.idxs[a]]
                      /\ \A b \in 1..Len(u.out) :
                            u.idxs[b] = call.res.idxs[a] =>
                                u.out[b] = call.res.out[a]

\* C24 at work: a filtered search over two records returned one of them,
\* the unfiltered search returns both, and the filtered-out record had a
\* positive score of its own.
C24_Witness ==
    /\ SearchReturned /\ call.gf # <<>>
    /\ Len(books) = 2
    /\ Len(call.res.out) = 1
    /\ \E ties \in Orders(NScored) :
          LET u == Unfiltered(MaxTopK, ties)
          IN  /\ Len(u.out) = 2
              /\ \E b \in 1..2 : u.out[b] = call.res.out[1]


\* C25: an engine constructed (and not indexed since) over cache files of
\* which only one exists, or of which one cannot be read, is empty: no
\* records, no embeddings, get_statistics reports indexed false and
\* total_books 0, and a search on it returns the empty sequence.
PartialCache ==
    \/ Exists(embFile) # Exists(idxFile)
    \/ Exists(embFile) /\ Exists(idxFile)
          /\ (embFile = Corrupt \/ idxFile = Corrupt)
C25_PartialCacheLoadsEmpty ==
    (build.outcome = "none" /\ PartialCache) =>
        /\ books = <<>> /\ embeddings = None
        /\ GetStatistics = [total_books |-> 0, indexed |-> FALSE]
        /\ call.op = "search" =>
              call.res.outcome = "returned" /\ call.res.out = <<>>

\* C25 at work: the vectors file is readable, the records file is not, and
\* a search on the engine constructed over them returned nothing.
C25_Witness ==
    /\ build.outcome = "none" /\ build.after = "raised"
    /\ embFile.state = "ok" /\ idxFile = Corrupt
    /\ call.op = "search" /\ call.res.out = <<>>
C25_WitnessOneFile ==
    /\ build.outcome = "none"
    /\ embFile.state = "ok" /\ idxFile = Absent
    /\ books = <<>> /\ embeddings = None


\* C28: search and recommend_similar only read the index.  A call leaves
\* books, embeddings, the keyword matrix and the vectorizer as they were,
\* and the score fields of its results are on copies: no stored record
\* carries one.
BookFields == {"isbn", "title", "description", "genres"}
C28_ReadersLeaveIndexAlone ==
    [][ (call = NoCall /\ call'.op \in {"search", "recommend_similar"})
            => /\ UNCHANGED engine
               /\ \A i \in 1..Len(books') : DOMAIN books'[i] = BookFields
      ]_vars

\* C28 at work: a search returned a stored record with its scores, and the
\* stored record is the plain one.
C28_Witness ==
    /\ SearchReturned /\ WholeCorpus
    /\ Len(call.res.out) >= 1
    /\ call.res.out[1].book = books[call.res.idxs[1]]
    /\ call.res.out[1].similarity_score > 0
    /\ DOMAIN books[call.res.idxs[1]] = BookFields


\* C22: when pass 1 of enrich_with_retry leaves a book without a
\* description and max_retries > 0, the retry pass is run on exactly the
\* books that failed, and every description it obtains is that book's
\* description in the final output.
FailedFirst ==
    {enrich.first[i].title : i \in {j \in 1..Len(enrich.first) :
                                   ~Truthy(enrich.first[j].description)}}
RetriedTitles == {enrich.retried[i].title : i \in 1..Len(enrich.retried)}
C22_RetryCoversFailedBooks ==
    (enrich.pc = "done" /\ enrich.max_retries > 0 /\ FailedFirst # {}) =>
        /\ RetriedTitles = FailedFirst
        /\ \A i \in 1..Len(enrich.second) :
              Truthy(enrich.second[i].description) =>
                  \E j \in 1..Len(enrich.output) :
                      /\ enrich.output[j].title = enrich.second[i].title
                      /\ enrich.output[j].description
                            = enrich.second[i].description

\* C29: whatever the order in which the workers complete, a pass of
\* enrich_parallel processes every row once, and the description and genre
\* it attaches to row i are the ones fetched for the book of row i.
PassEnded ==
    enrich.pc \in {"pass1", "retry"} /\ enrich.run.pending = {}
C29_ResultsRealignedByIndex ==
    PassEnded =>
        LET df == enrich.run.df
            results == enrich.run.results
            attached == Attached(df, results)
        IN  /\ Len(results) = Len(df)
            /\ \A i \in 1..Len(df) :
                  /\ Cardinality({k \in 1..Len(results) :
                                     results[k].index = i}) = 1
                  /\ \A k \in 1..Len(results) :
                        results[k].index = i =>
                            /\ results[k].title = df[i].title
                            /\ attached[i].title = df[i].title
                            /\ attached[i].description = results[k].description
                            /\ attached[i].genre = results[k].genre

\* C29 at work: three workers completed in the reverse of the row order
\* with three different outcomes.
C29_Witness ==
    /\ PassEnded
    /\ Len(enrich.run.results) = 3
    /\ enrich.run.results[1].index = 3
    /\ enrich.run.results[2].index = 2
    /\ enrich.run.results[3].index = 1
    /\ enrich.run.results[1].success
    /\ ~enrich.run.results[2].success
    /\ enrich.run.results[3].success


\* C30: every insert_books_batch call returns (inserted, duplicates) with
\* inserted + duplicates the length of the batch; a record whose isbn is
\* already stored is counted as a duplicate and the stored row stays as it
\* was; no two rows of the table have the same isbn.
StoredBefore(book) ==
    \E i \in 1..Len(dbcall.before) : dbcall.before[i].isbn = book.isbn
C30_BatchInsertCountsAndKeepsKeysUnique ==
    /\ \A i, j \in 1..Len(table) : i # j => table[i].isbn # table[j].isbn
    /\ dbcall.op = "insert_books_batch" =>
          /\ dbcall.returns[1] + dbcall.returns[2] = Len(dbcall.books)
          /\ dbcall.returns[1] = Len(table) - Len(dbcall.before)
          /\ dbcall.returns[2] >=
                Cardinality({k \in 1..Len(dbcall.books) :
                                StoredBefore(dbcall.books[k])})
          /\ \A i \in 1..Len(dbcall.before) : table[i] = dbcall.before[i]

\* C30 at work: a batch of two records, one with a stored isbn under
\* another title and one new, returned (1, 1) and left the stored row.
C30_Witness ==
    /\ dbcall.op = "insert_books_batch"
    /\ dbcall.calls >= 2
    /\ dbcall.returns = <<1, 1>>
    /\ \E k \in 1..Len(dbcall.books) :
          /\ StoredBefore(dbcall.books[k])
          /\ \A i \in 1..Len(table) : table[i] # dbcall.books[k]

====
